---- MODULE Spec2Model ----
(***************************************************************************)
(* HL7 parser of lmanjot/analytica_parsing: parse_hl7_segment and          *)
(* parse_hl7_message (src/main.py, duplicated verbatim in                  *)
(* src/api/index.py), and the two request handlers that call the parser.   *)
(*                                                                         *)
(* Texts are TLA+ strings, handled character by character (Len, SubSeq,    *)
(* \o), so that strip, split and the '^' test do what the Python string    *)
(* methods do.  One parse call is a process with its own local variables;  *)
(* its position in parse_hl7_message is pc[p].                             *)
(***************************************************************************)
EXTENDS Naturals, Sequences, FiniteSets, TLC

VARIABLES
    pc,              \* pc[p]: position of call p
    endpoint,        \* endpoint[p]: the handler that made the call
    file_path,       \* file_path[p]: request.file_path (parse_hl7_file only)
    hl7_data,        \* hl7_data[p]: the argument of parse_hl7_message
    lines,           \* lines[p]: local `lines`
    message_type,    \* message_type[p]: local `message_type`
    segments,        \* segments[p]: local `segments`
    segment_counts,  \* segment_counts[p]: local `segment_counts`
    idx,             \* idx[p]: position of `for line in lines` (1-based)
    result,          \* result[p]: what parse_hl7_message returned or raised
    response         \* response[p]: what the handler answered

vars == <<pc, endpoint, file_path, hl7_data, lines, message_type, segments,
          segment_counts, idx, result, response>>

-----------------------------------------------------------------------------
(* Bounds of the model *)

\* Raw lines of a generated text after its first line.
MaxLines == 2

\* Parse calls in flight in SpecCalls.
NumCalls == 2

-----------------------------------------------------------------------------
(* Python string and dict primitives *)

None == "None"

Char(s, i) == SubSeq(s, i, i)

\* The characters str.strip() removes (the ASCII ones TLA+ can write).
Whitespace == {" ", "\t", "\n", "\r", "\f"}

\* c in s
Contains(s, c) == \E i \in 1..Len(s) : Char(s, i) = c

RECURSIVE lstrip(_)
lstrip(s) ==
    IF Len(s) > 0 /\ Char(s, 1) \in Whitespace
    THEN lstrip(SubSeq(s, 2, Len(s)))
    ELSE s

RECURSIVE rstrip(_)
rstrip(s) ==
    IF Len(s) > 0 /\ Char(s, Len(s)) \in Whitespace
    THEN rstrip(SubSeq(s, 1, Len(s) - 1))
    ELSE s

\* s.strip()
strip(s) == rstrip(lstrip(s))

\* s.find(sep, start): the first position of sep at or after start, 0 if none
\* (positions are 1-based).
find(s, sep, start) ==
    IF \E i \in start..Len(s) : Char(s, i) = sep
    THEN CHOOSE i \in start..Len(s) :
             /\ Char(s, i) = sep
             /\ \A j \in start..(i - 1) : Char(s, j) /= sep
    ELSE 0

RECURSIVE SplitScan(_, _, _)
SplitScan(s, sep, start) ==
    LET i == find(s, sep, start)
    IN  IF i = 0
        THEN <<SubSeq(s, start, Len(s))>>
        ELSE <<SubSeq(s, start, i - 1)>> \o SplitScan(s, sep, i + 1)

\* s.split(sep) for a one-character sep: empty pieces kept, "" gives [""].
split(s, sep) == SplitScan(s, sep, 1)

\* {}
EmptyDict == <<>>

\* d[k] = v
Put(d, k, v) == [x \in (DOMAIN d) \cup {k} |-> IF x = k THEN v ELSE d[x]]

\* d.get(k, default)
Get(d, k, default) == IF k \in DOMAIN d THEN d[k] ELSE default

-----------------------------------------------------------------------------
(* parse_hl7_segment *)

\* A variant of parsed_field that splits every field, '^' or not.
parsed_field_always_split(i, field) ==
    [field_number |-> i, value |-> field, subfields |-> split(field, "^")]

\* The dict built for one non-empty field.
parsed_field(i, field) ==
    IF Contains(field, "^")
    THEN [field_number |-> i, value |-> field, subfields |-> split(field, "^")]
    ELSE [field_number |-> i, value |-> field]

\* for i, field in enumerate(parts[1:], 1): if field: fields.append(...)
RECURSIVE parse_fields(_, _)
parse_fields(parts, i) ==
    IF i + 1 > Len(parts)
    THEN <<>>
    ELSE IF parts[i + 1] /= ""
         THEN <<parsed_field(i, parts[i + 1])>> \o parse_fields(parts, i + 1)
         ELSE parse_fields(parts, i + 1)

parse_hl7_segment(segment) ==
    LET parts == split(segment, "|")
    IN  [segment_type |-> parts[1], fields |-> parse_fields(parts, 1)]

-----------------------------------------------------------------------------
(* parse_hl7_message, statement by statement *)

\* A variant of StripNonBlank that keeps the blank lines.
RECURSIVE StripAll(_)
StripAll(pieces) ==
    IF pieces = <<>>
    THEN <<>>
    ELSE <<strip(Head(pieces))>> \o StripAll(Tail(pieces))

\* A variant of StripNonBlank that keeps the lines untrimmed.
RECURSIVE KeepNonBlank(_)
KeepNonBlank(pieces) ==
    IF pieces = <<>>
    THEN <<>>
    ELSE IF strip(Head(pieces)) /= ""
         THEN <<Head(pieces)>> \o KeepNonBlank(Tail(pieces))
         ELSE KeepNonBlank(Tail(pieces))

\* [line.strip() for line in pieces if line.strip()]
RECURSIVE StripNonBlank(_)
StripNonBlank(pieces) ==
    IF pieces = <<>>
    THEN <<>>
    ELSE IF strip(Head(pieces)) /= ""
         THEN <<strip(Head(pieces))>> \o StripNonBlank(Tail(pieces))
         ELSE StripNonBlank(Tail(pieces))

\* lines = [line.strip() for line in hl7_data.strip().split('\n') if line.strip()]
normalize_lines(text) == StripNonBlank(split(strip(text), "\n"))

\* len(msh_segment["fields"]) >= 8
MinHeaderFields == 8

\* msh_segment["fields"][8]
MessageTypeIndex == 8

\* if msh_segment["fields"] and len(msh_segment["fields"]) >= 8:
HeaderGuard(fields) == fields /= <<>> /\ Len(fields) >= MinHeaderFields

\* msh_segment["fields"][8] raises IndexError on a list of 8 fields
\* (Python indexes from 0, a TLA+ sequence from 1).
HeaderIndexInRange(fields) == MessageTypeIndex + 1 <= Len(fields)

\* A variant of message_type_of that does not cut at '^'.
message_type_whole(message_type_field) == message_type_field

\* message_type_field.split('^')[0] if '^' in message_type_field else itself
message_type_of(message_type_field) ==
    IF Contains(message_type_field, "^")
    THEN split(message_type_field, "^")[1]
    ELSE message_type_field

\* A variant of CurrentCount that sets the counter to 0 on every segment.
CurrentCountReset(p, segment_type) == 0

\* A variant of CurrentCount over one process-wide segment_counts: the
\* count is that of all the calls.
CurrentCountShared(p, segment_type) ==
    LET all == {Get(segment_counts[q], segment_type, 0) : q \in DOMAIN segment_counts}
    IN  CHOOSE n \in all : \A m \in all : m <= n

\* if segment_type not in segment_counts: segment_counts[segment_type] = 0
\* (the count that `+= 1` then reads)
CurrentCount(p, segment_type) == Get(segment_counts[p], segment_type, 0)

\* A variant of GroupSegments that puts each segment in front of its group.
RECURSIVE GroupSegmentsPrepend(_, _, _)
GroupSegmentsPrepend(segs, i, grouped_segments) ==
    IF i > Len(segs)
    THEN grouped_segments
    ELSE LET seg_type == segs[i].segment_type
             sofar    == Get(grouped_segments, seg_type, <<>>)
         IN  GroupSegmentsPrepend(segs, i + 1,
                                  Put(grouped_segments, seg_type, <<segs[i]>> \o sofar))

\* Group segments by type: the loop over `segments`, from position i.
RECURSIVE GroupSegments(_, _, _)
GroupSegments(segs, i, grouped_segments) ==
    IF i > Len(segs)
    THEN grouped_segments
    ELSE LET seg_type == segs[i].segment_type
             sofar    == Get(grouped_segments, seg_type, <<>>)
         IN  GroupSegments(segs, i + 1,
                           Put(grouped_segments, seg_type, Append(sofar, segs[i])))

\* The dict parse_hl7_message returns.
ReturnedDocument(grouped_segments, segs, counts, mtype) ==
    [message_header         |-> Get(grouped_segments, "MSH", <<>>),
     patient_identification |-> Get(grouped_segments, "PID", <<>>),
     patient_visit          |-> Get(grouped_segments, "PV1", <<>>),
     common_order           |-> Get(grouped_segments, "ORC", <<>>),
     observation_request    |-> Get(grouped_segments, "OBR", <<>>),
     observations           |-> Get(grouped_segments, "OBX", <<>>),
     notes                  |-> Get(grouped_segments, "NTE", <<>>),
     specimen               |-> Get(grouped_segments, "SPM", <<>>),
     all_segments           |-> segs,
     segment_counts         |-> counts,
     message_type           |-> mtype]

Returned(doc) == [kind |-> "return", doc |-> doc]

Raised(exc, msg) == [kind |-> "raise", exc |-> exc, msg |-> msg]

-----------------------------------------------------------------------------
(* Inputs *)

\* sample_hl7 of test_parse
sample_hl7 ==
    "MSH|^~\\&|TEST|TEST|||20250101120000||ORU^R01|123|P|2.4" \o "\n" \o
    "PID|1||12345||TEST^PATIENT||19900101|M|||ADR^^CITY^STATE^ZIP^COUNTRY||TEL||" \o "\n" \o
    "OBX|1|NM|TEST^Test Result^TEST||10.5|mg/dl^^L|5.0-15.0||||F||||||||"

\* Raw lines a text may continue with: blank ones, padded ones, repeated
\* and unknown segment types.
BodyLines ==
    { " \r",
      "PID|1||12345",
      " OBX|1|NM|T^R^T||10.5|mg/dl^^L\r",
      "OBX|2|NM",
      "NTE|1||c|R",
      "ZZZ",
      "MSH|a" }

\* Raw first lines: the body lines, headers with 0 to 10 present fields
\* (8 of them twice: at positions 1-8, and as in sample_hl7 with gaps), the
\* other accessor types and types that only resemble one.
FirstLines ==
    BodyLines \cup
    { "",
      "MSH",
      "MSH|",
      "MSH||||",
      "MSH|a|b|c|d",
      "MSH|^~\\&|A|B|C|D|T",
      "MSH|^~\\&|A|B|C|D|T|S",
      "MSH|^~\\&|A|B|C|D|T|S|ORU^R01",
      "MSH|^~\\&|TEST|TEST|||20250101120000||ORU^R01|123|P|2.4",
      "MSH|^~\\&|A|B|C|D|T|S|U|ORU^R01",
      "MSH|^~\\&|A|B|C|D|T|S|U|^R01",
      "MSH|^~\\&|A|B|C|D|T|S|U|ADT|1",
      "MSH|^~\\&|A|B|||T||ORU^R01|1|P|2.4||||||8859",
      "\t|a|b|c|d|e|f|g|h|i^j^k ",
      "PV1|1|U", "ORC|NW", "OBR|0", "SPM|1",
      "msh|a", "MSH |a", "OBX2|x",
      "\n \t\f" }

RECURSIVE JoinLines(_)
JoinLines(raw) ==
    IF raw = <<>> THEN ""
    ELSE IF Len(raw) = 1 THEN raw[1]
    ELSE raw[1] \o "\n" \o JoinLines(Tail(raw))

SeqsUpTo(S, n) == UNION { [1..k -> S] : k \in 0..n }

\* The texts a call may be given.
Texts ==
    { JoinLines(<<f>> \o rest) : f \in FirstLines, rest \in SeqsUpTo(BodyLines, MaxLines) }
    \cup {"", sample_hl7}

\* The texts of the calls that run interleaved.
ConcTexts ==
    { "",
      "OBX|1\nOBX|2\nNTE|1",
      "OBX|1\n\nPID|1||12345",
      "NTE|1\nNTE|2\r\nOBX|3",
      "MSH|^~\\&|A|B|||T||ORU^R01|1|P|2.4\nOBX|1" }

FilePaths == {"in/result.hl7"}

Calls == 1..NumCalls

-----------------------------------------------------------------------------
(* Actions *)

\* The locals of a call that has not assigned them.
Fresh(p) ==
    /\ lines' = [lines EXCEPT ![p] = <<>>]
    /\ message_type' = [message_type EXCEPT ![p] = None]
    /\ segments' = [segments EXCEPT ![p] = <<>>]
    /\ segment_counts' = [segment_counts EXCEPT ![p] = EmptyDict]
    /\ idx' = [idx EXCEPT ![p] = 0]

\* POST /parse-hl7: the downloaded content is handed to parse_hl7_message.
parse_hl7_file(p, contents) ==
    /\ pc[p] = "idle"
    /\ \E hl7_content \in contents, path \in FilePaths :
          /\ hl7_data' = [hl7_data EXCEPT ![p] = hl7_content]
          /\ file_path' = [file_path EXCEPT ![p] = path]
    /\ endpoint' = [endpoint EXCEPT ![p] = "parse-hl7"]
    /\ pc' = [pc EXCEPT ![p] = "lines"]
    /\ result' = [result EXCEPT ![p] = None]
    /\ response' = [response EXCEPT ![p] = None]
    /\ Fresh(p)

\* POST /api/test-parse: parse_hl7_message(sample_hl7).
test_parse(p) ==
    /\ pc[p] = "idle"
    /\ hl7_data' = [hl7_data EXCEPT ![p] = sample_hl7]
    /\ file_path' = [file_path EXCEPT ![p] = None]
    /\ endpoint' = [endpoint EXCEPT ![p] = "test-parse"]
    /\ pc' = [pc EXCEPT ![p] = "lines"]
    /\ result' = [result EXCEPT ![p] = None]
    /\ response' = [response EXCEPT ![p] = None]
    /\ Fresh(p)

\* lines = [...]; if not lines: raise ValueError("Empty HL7 message")
SplitLines(p) ==
    /\ pc[p] = "lines"
    /\ LET ls == normalize_lines(hl7_data[p])
       IN  /\ lines' = [lines EXCEPT ![p] = ls]
           /\ IF ls = <<>>
              THEN /\ result' = [result EXCEPT ![p] = Raised("ValueError", "Empty HL7 message")]
                   /\ pc' = [pc EXCEPT ![p] = "raised"]
              ELSE /\ result' = result
                   /\ pc' = [pc EXCEPT ![p] = "msh"]
    /\ UNCHANGED <<endpoint, file_path, hl7_data, message_type, segments,
                   segment_counts, idx, response>>

\* msh_segment = parse_hl7_segment(lines[0]); message_type = ...;
\* segments = []; segment_counts = {}
DeriveMessageType(p) ==
    /\ pc[p] = "msh"
    /\ LET msh_segment == parse_hl7_segment(lines[p][1])
           fields      == msh_segment.fields
       IN  IF HeaderGuard(fields)
           THEN IF HeaderIndexInRange(fields)
                THEN /\ message_type' = [message_type EXCEPT ![p] =
                            message_type_of(fields[MessageTypeIndex + 1].value)]
                     /\ pc' = [pc EXCEPT ![p] = "loop"]
                     /\ idx' = [idx EXCEPT ![p] = 1]
                     /\ result' = result
                ELSE /\ result' = [result EXCEPT ![p] =
                            Raised("IndexError", "list index out of range")]
                     /\ pc' = [pc EXCEPT ![p] = "raised"]
                     /\ message_type' = [message_type EXCEPT ![p] = "Unknown"]
                     /\ idx' = idx
           ELSE /\ message_type' = [message_type EXCEPT ![p] = "Unknown"]
                /\ pc' = [pc EXCEPT ![p] = "loop"]
                /\ idx' = [idx EXCEPT ![p] = 1]
                /\ result' = result
    /\ segments' = [segments EXCEPT ![p] = <<>>]
    /\ segment_counts' = [segment_counts EXCEPT ![p] = EmptyDict]
    /\ UNCHANGED <<endpoint, file_path, hl7_data, lines, response>>

\* One iteration of `for line in lines`.
ParseLine(p) ==
    /\ pc[p] = "loop"
    /\ idx[p] <= Len(lines[p])
    /\ LET segment      == parse_hl7_segment(lines[p][idx[p]])
           segment_type == segment.segment_type
           count        == CurrentCount(p, segment_type) + 1
       IN  /\ segment_counts' = [segment_counts EXCEPT ![p] = Put(@, segment_type, count)]
           /\ segments' = [segments EXCEPT ![p] =
                  Append(@, [segment_type   |-> segment_type,
                             fields         |-> segment.fields,
                             segment_number |-> count])]
    /\ idx' = [idx EXCEPT ![p] = @ + 1]
    /\ UNCHANGED <<pc, endpoint, file_path, hl7_data, lines, message_type, result, response>>

\* The loop is over: group the segments and return the document.
GroupAndReturn(p) ==
    /\ pc[p] = "loop"
    /\ idx[p] > Len(lines[p])
    /\ LET grouped_segments == GroupSegments(segments[p], 1, EmptyDict)
       IN  result' = [result EXCEPT ![p] =
               Returned(ReturnedDocument(grouped_segments, segments[p],
                                         segment_counts[p], message_type[p]))]
    /\ pc' = [pc EXCEPT ![p] = "returned"]
    /\ UNCHANGED <<endpoint, file_path, hl7_data, lines, message_type, segments,
                   segment_counts, idx, response>>

\* What parse_hl7_file answers: HL7Response, or HTTPException(400).
ParseHl7FileResponse(r, path) ==
    IF r.kind = "return"
    THEN [status_code |-> 200,
          body |-> [parsed_data  |-> r.doc,
                    message_type |-> r.doc.message_type,
                    segments     |-> r.doc.all_segments,
                    file_path    |-> path]]
    ELSE [status_code |-> 400,
          body |-> [detail |-> "Error processing HL7 file: " \o r.msg]]

\* What test_parse answers.
TestParseResponse(r) ==
    IF r.kind = "return"
    THEN [status_code |-> 200,
          body |-> [status       |-> "success",
                    message_type |-> r.doc.message_type,
                    segments     |-> Len(r.doc.all_segments),
                    test         |-> "HL7 parsing works"]]
    ELSE [status_code |-> 200,
          body |-> [status |-> "error", message |-> r.msg]]

\* The handler answers; the locals of the call are gone.
Respond(p) ==
    /\ pc[p] \in {"returned", "raised"}
    /\ response' = [response EXCEPT ![p] =
           IF endpoint[p] = "test-parse"
           THEN TestParseResponse(result[p])
           ELSE ParseHl7FileResponse(result[p], file_path[p])]
    /\ pc' = [pc EXCEPT ![p] = "responded"]
    /\ Fresh(p)
    /\ UNCHANGED <<endpoint, file_path, hl7_data, result>>

\* The request is over: nothing of it is kept.
RequestDone(p) ==
    /\ pc[p] = "responded"
    /\ pc' = [pc EXCEPT ![p] = "idle"]
    /\ endpoint' = [endpoint EXCEPT ![p] = None]
    /\ file_path' = [file_path EXCEPT ![p] = None]
    /\ hl7_data' = [hl7_data EXCEPT ![p] = None]
    /\ result' = [result EXCEPT ![p] = None]
    /\ response' = [response EXCEPT ![p] = None]
    /\ Fresh(p)

-----------------------------------------------------------------------------
(* Specifications *)

InitOf(calls) ==
    /\ pc = [p \in calls |-> "idle"]
    /\ endpoint = [p \in calls |-> None]
    /\ file_path = [p \in calls |-> None]
    /\ hl7_data = [p \in calls |-> None]
    /\ lines = [p \in calls |-> <<>>]
    /\ message_type = [p \in calls |-> None]
    /\ segments = [p \in calls |-> <<>>]
    /\ segment_counts = [p \in calls |-> EmptyDict]
    /\ idx = [p \in calls |-> 0]
    /\ result = [p \in calls |-> None]
    /\ response = [p \in calls |-> None]

\* One call at a time, over all the texts.
Init == InitOf({1})

Next ==
    \/ parse_hl7_file(1, Texts)
    \/ test_parse(1)
    \/ SplitLines(1)
    \/ DeriveMessageType(1)
    \/ ParseLine(1)
    \/ GroupAndReturn(1)
    \/ Respond(1)
    \/ RequestDone(1)

Spec == Init /\ [][Next]_vars

\* NumCalls calls whose statements interleave in every order.
InitCalls == InitOf(Calls)

NextCalls ==
    \E p \in Calls :
        \/ parse_hl7_file(p, ConcTexts)
        \/ test_parse(p)
        \/ SplitLines(p)
        \/ DeriveMessageType(p)
        \/ ParseLine(p)
        \/ GroupAndReturn(p)
        \/ Respond(p)
        \/ RequestDone(p)

SpecCalls == InitCalls /\ [][NextCalls]_vars

-----------------------------------------------------------------------------
(* What the claims speak of, stated from the text alone: positions of      *)
(* separators, not the parser's operators.                                 *)

\* The n-th smallest element of a set of numbers.
NthSmallest(S, n) == CHOOSE x \in S : Cardinality({y \in S : y <= x}) = n

SepPositions(s, sep) == {i \in 1..Len(s) : Char(s, i) = sep}

\* The number of pieces sep cuts s into.
TokenCount(s, sep) == Cardinality(SepPositions(s, sep)) + 1

\* The position of the k-th sep of s; 0 before the first piece, Len(s)+1
\* after the last.
Boundary(s, sep, k) ==
    LET at == SepPositions(s, sep)
    IN  IF k = 0 THEN 0
        ELSE IF k > Cardinality(at) THEN Len(s) + 1
        ELSE CHOOSE x \in at : Cardinality({y \in at : y <= x}) = k

\* The k-th piece of s (k from 1): the text between two neighbouring seps.
Token(s, sep, k) == SubSeq(s, Boundary(s, sep, k - 1) + 1, Boundary(s, sep, k) - 1)

IsBlank(s) == \A i \in 1..Len(s) : Char(s, i) \in Whitespace

\* s without its leading and trailing whitespace.
Trimmed(s) ==
    LET solid == {i \in 1..Len(s) : Char(s, i) \notin Whitespace}
    IN  IF solid = {} THEN ""
        ELSE SubSeq(s, NthSmallest(solid, 1), NthSmallest(solid, Cardinality(solid)))

\* The pieces of the text between line breaks.
RawLines(text) == [k \in 1..TokenCount(text, "\n") |-> Token(text, "\n", k)]

\* The non-blank lines of the text, trimmed, in order.
NonBlankTrimmed(text) ==
    LET raw  == RawLines(text)
        keep == {k \in 1..Len(raw) : ~IsBlank(raw[k])}
    IN  [n \in 1..Cardinality(keep) |-> Trimmed(raw[NthSmallest(keep, n)])]

\* The positions (1-based, after the segment type) of the non-empty tokens.
PresentPositions(line) ==
    {k \in 1..(TokenCount(line, "|") - 1) : Token(line, "|", k + 1) /= ""}

PresentCount(line) == Cardinality(PresentPositions(line))

\* The Field the tokenizer is to emit for the token at position k.
ExpectedField(line, k) ==
    LET t == Token(line, "|", k + 1)
    IN  IF SepPositions(t, "^") /= {}
        THEN [field_number |-> k, value |-> t,
              subfields |-> [j \in 1..TokenCount(t, "^") |-> Token(t, "^", j)]]
        ELSE [field_number |-> k, value |-> t]

\* The field list the tokenizer is to return.
ExpectedFields(line) ==
    [n \in 1..PresentCount(line) |->
        ExpectedField(line, NthSmallest(PresentPositions(line), n))]

\* The call is over: its result is there.
Finished(p) == pc[p] \in {"returned", "raised"}

\* The positions of the segments of one type in a segment list.
PositionsOfType(segs, T) == {i \in 1..Len(segs) : segs[i].segment_type = T}

\* The segments of one type, in document order.
OfType(segs, T) ==
    [n \in 1..Cardinality(PositionsOfType(segs, T)) |->
        segs[NthSmallest(PositionsOfType(segs, T), n)]]

SampleHeader == "MSH|^~\\&|TEST|TEST|||20250101120000||ORU^R01|123|P|2.4"

AccessorKeys == {"MSH", "PID", "PV1", "ORC", "OBR", "OBX", "NTE", "SPM"}

-----------------------------------------------------------------------------
(* Claims *)

\* C1: parse fails only with the empty-input error, and only when the text
\* has no non-blank line; every text with a non-blank line gets a document.
C1_FailsOnlyOnEmptyInput ==
    \A p \in DOMAIN pc :
        Finished(p) =>
            IF NonBlankTrimmed(hl7_data[p]) = <<>>
            THEN result[p] = Raised("ValueError", "Empty HL7 message")
            ELSE result[p].kind = "return"

\* C2: a message whose header line is the sample header parses with
\* message_type "ORU", and /api/test-parse answers status "success".
C2_SampleHeaderIsORU ==
    \A p \in DOMAIN pc :
        /\ (Finished(p) /\ NonBlankTrimmed(hl7_data[p]) /= <<>>
                /\ NonBlankTrimmed(hl7_data[p])[1] = SampleHeader)
              => (result[p].kind = "return" /\ result[p].doc.message_type = "ORU")
        /\ (pc[p] = "responded" /\ endpoint[p] = "test-parse")
              => response[p].body.status = "success"

\* C3: a first line with fewer than 9 present Fields (0 to 8) gives a
\* document whose message_type is "Unknown".
C3_FewerThanNineIsUnknown ==
    \A p \in DOMAIN pc :
        (Finished(p) /\ NonBlankTrimmed(hl7_data[p]) /= <<>>
            /\ PresentCount(NonBlankTrimmed(hl7_data[p])[1]) < 9)
          => (result[p].kind = "return" /\ result[p].doc.message_type = "Unknown")

C5_BlankTextRaises ==
    \A p \in DOMAIN pc :
        (Finished(p) /\ IsBlank(hl7_data[p]))
          => result[p] = Raised("ValueError", "Empty HL7 message")

\* C5 happens: a non-empty text of whitespace and line breaks was refused.
C5_Witness ==
    \E p \in DOMAIN pc :
        /\ pc[p] = "raised"
        /\ Len(hl7_data[p]) > 1
        /\ IsBlank(hl7_data[p])
        /\ Contains(hl7_data[p], "\n")

\* C6: all_segments of a returned document holds one Segment per non-blank
\* line of the text, in line order, the i-th being the tokenization of the
\* i-th trimmed non-blank line.
C6_OneSegmentPerNonBlankLine ==
    \A p \in DOMAIN pc :
        pc[p] = "returned" =>
            LET nb   == NonBlankTrimmed(hl7_data[p])
                segs == result[p].doc.all_segments
            IN  /\ Len(segs) = Len(nb)
                /\ \A i \in 1..Len(segs) :
                      /\ segs[i].segment_type = Token(nb[i], "|", 1)
                      /\ segs[i].fields = ExpectedFields(nb[i])

\* C6 happens: a document from a text with a blank line dropped and a padded
\* line trimmed.
C6_Witness ==
    \E p \in DOMAIN pc :
        /\ pc[p] = "returned"
        /\ Len(result[p].doc.all_segments) >= 2
        /\ \E k \in 1..Len(RawLines(hl7_data[p])) : IsBlank(RawLines(hl7_data[p])[k])
        /\ \E k \in 1..Len(RawLines(hl7_data[p])) :
              LET l == RawLines(hl7_data[p])[k]
              IN  ~IsBlank(l) /\ Trimmed(l) /= l

\* C7: in a returned document, the segments of each type carry occurrence
\* numbers that start at 1 and strictly increase in document order, and
\* segment_counts of the type is their number and their largest number.
C7_OccurrenceNumbers ==
    \A p \in DOMAIN pc :
        pc[p] = "returned" =>
            LET doc   == result[p].doc
                segs  == doc.all_segments
                types == {segs[i].segment_type : i \in 1..Len(segs)}
            IN  /\ DOMAIN doc.segment_counts = types
                /\ \A T \in types :
                      LET occ == OfType(segs, T)
                      IN  /\ occ[1].segment_number = 1
                          /\ \A n \in 1..(Len(occ) - 1) :
                                occ[n].segment_number < occ[n + 1].segment_number
                          /\ doc.segment_counts[T] = Len(occ)
                          /\ \A n \in 1..Len(occ) :
                                occ[n].segment_number <= doc.segment_counts[T]
                          /\ \E n \in 1..Len(occ) :
                                occ[n].segment_number = doc.segment_counts[T]

\* C7 happens: a document with a repeated type around a segment of another
\* type.
C7_Witness ==
    \E p \in DOMAIN pc :
        /\ pc[p] = "returned"
        /\ LET segs == result[p].doc.all_segments
           IN  \E i, j, k \in 1..Len(segs) :
                  /\ i < j /\ j < k
                  /\ segs[i].segment_type = segs[k].segment_type
                  /\ segs[i].segment_type /= segs[j].segment_type
                  /\ segs[k].segment_number = 2

\* C8: the Segment made from a line has the text before the first '|' as its
\* type and, in order, one Field per non-empty later token, numbered by the
\* token's position and holding it verbatim; an empty token gives no Field;
\* a Field has subfields exactly when its value holds '^', and they are the
\* value cut at every '^', empty pieces kept; a line without '|' is all
\* type and has no Field.
C8_Tokenize ==
    \A p \in DOMAIN pc :
        \A i \in 1..Len(segments[p]) :
            LET line == lines[p][i]
                seg  == segments[p][i]
                n    == TokenCount(line, "|")
            IN  /\ seg.segment_type = Token(line, "|", 1)
                /\ \A a \in 1..Len(seg.fields) :
                      LET f == seg.fields[a]
                      IN  /\ f.field_number \in 1..(n - 1)
                          /\ f.value = Token(line, "|", f.field_number + 1)
                          /\ f.value /= ""
                          /\ ("subfields" \in DOMAIN f) <=> (SepPositions(f.value, "^") /= {})
                          /\ ("subfields" \in DOMAIN f) =>
                                /\ Len(f.subfields) = TokenCount(f.value, "^")
                                /\ \A j \in 1..Len(f.subfields) :
                                      f.subfields[j] = Token(f.value, "^", j)
                /\ \A a \in 1..(Len(seg.fields) - 1) :
                      seg.fields[a].field_number < seg.fields[a + 1].field_number
                /\ \A k \in 1..(n - 1) :
                      (Token(line, "|", k + 1) /= "")
                        <=> (\E a \in 1..Len(seg.fields) : seg.fields[a].field_number = k)
                /\ (SepPositions(line, "|") = {}) =>
                      (seg.segment_type = line /\ seg.fields = <<>>)

\* C8 happens: a line without '|' and a line with an empty token and a
\* subfield list holding an empty piece have been tokenized.
C8_Witness ==
    \E p \in DOMAIN pc :
        /\ \E i \in 1..Len(segments[p]) :
              /\ SepPositions(lines[p][i], "|") = {}
              /\ segments[p][i].fields = <<>>
        /\ \E i \in 1..Len(segments[p]) :
              LET fs == segments[p][i].fields
              IN  /\ \E a \in 1..(Len(fs) - 1) :
                        fs[a + 1].field_number > fs[a].field_number + 1
                  /\ \E a \in 1..Len(fs) :
                        /\ "subfields" \in DOMAIN fs[a]
                        /\ \E j \in 1..Len(fs[a].subfields) : fs[a].subfields[j] = ""
                  /\ \E a \in 1..Len(fs) : "subfields" \notin DOMAIN fs[a]

\* C9: in a returned document each named accessor is the ordered
\* subsequence of all_segments of exactly its type, empty when that type
\* does not occur; a segment of another type is in no accessor.
C9_NamedAccessors ==
    \A p \in DOMAIN pc :
        pc[p] = "returned" =>
            LET doc  == result[p].doc
                segs == doc.all_segments
                named == <<doc.message_header, doc.patient_identification,
                           doc.patient_visit, doc.common_order,
                           doc.observation_request, doc.observations,
                           doc.notes, doc.specimen>>
            IN  /\ doc.message_header         = OfType(segs, "MSH")
                /\ doc.patient_identification = OfType(segs, "PID")
                /\ doc.patient_visit          = OfType(segs, "PV1")
                /\ doc.common_order           = OfType(segs, "ORC")
                /\ doc.observation_request    = OfType(segs, "OBR")
                /\ doc.observations           = OfType(segs, "OBX")
                /\ doc.notes                  = OfType(segs, "NTE")
                /\ doc.specimen               = OfType(segs, "SPM")
                /\ \A i \in 1..Len(segs) :
                      segs[i].segment_type \notin AccessorKeys =>
                          \A a \in 1..Len(named) : \A j \in 1..Len(named[a]) :
                              named[a][j] /= segs[i]

\* C9 happens: a document with two observations, a segment of a type that
\* has no accessor, and an accessor left empty.
C9_Witness ==
    \E p \in DOMAIN pc :
        /\ pc[p] = "returned"
        /\ Len(result[p].doc.observations) = 2
        /\ result[p].doc.message_header = <<>>
        /\ \E i \in 1..Len(result[p].doc.all_segments) :
              result[p].doc.all_segments[i].segment_type \notin AccessorKeys

\* The number of the first n non-blank lines of a text whose type is T.
OwnCount(text, n, T) ==
    Cardinality({i \in 1..n : Token(NonBlankTrimmed(text)[i], "|", 1) = T})

\* C10: whatever other calls do meanwhile and did before, the counters of a
\* call count the segments of its own text only, from 0 for every type; the
\* occurrence number of a segment is its rank among the call's own lines of
\* its type; the segments it returns are those of its own lines; two calls
\* on the same text return the same document.
C10_NoStateAcrossCalls ==
    \A p \in DOMAIN pc :
        /\ pc[p] \in {"loop", "returned"} =>
              /\ \A T \in DOMAIN segment_counts[p] :
                    segment_counts[p][T] = OwnCount(hl7_data[p], idx[p] - 1, T)
              /\ \A i \in 1..Len(segments[p]) :
                    /\ segments[p][i].segment_type \in DOMAIN segment_counts[p]
                    /\ segments[p][i].segment_number =
                          OwnCount(hl7_data[p], i, segments[p][i].segment_type)
        /\ pc[p] = "returned" =>
              /\ result[p].doc.all_segments = segments[p]
              /\ result[p].doc.segment_counts = segment_counts[p]
              /\ Len(segments[p]) = Len(NonBlankTrimmed(hl7_data[p]))
              /\ \A i \in 1..Len(segments[p]) :
                    /\ segments[p][i].segment_type =
                          Token(NonBlankTrimmed(hl7_data[p])[i], "|", 1)
                    /\ segments[p][i].fields =
                          ExpectedFields(NonBlankTrimmed(hl7_data[p])[i])
              /\ \A q \in DOMAIN pc :
                    (pc[q] = "returned" /\ hl7_data[q] = hl7_data[p])
                        => result[q] = result[p]

\* C10 happens: two calls on different texts that share a segment type have
\* both returned, with different counts of that type.
C10_Witness ==
    \E p, q \in DOMAIN pc :
        /\ p /= q
        /\ pc[p] = "returned" /\ pc[q] = "returned"
        /\ hl7_data[p] /= hl7_data[q]
        /\ "OBX" \in DOMAIN result[p].doc.segment_counts
        /\ "OBX" \in DOMAIN result[q].doc.segment_counts
        /\ result[p].doc.segment_counts["OBX"] = 2
        /\ result[q].doc.segment_counts["OBX"] = 1

====
